---- MODULE Spec2Model ----
(***************************************************************************)
(* Model of the zip-code lookup client, apiClient.py:                      *)
(* ZipcodesAPIClient (constructor, API-key validation, parameter           *)
(* validator, execute, close, context manager) and its two exception       *)
(* types.                                                                  *)
(*                                                                         *)
(* Python values are records [t, s, n]: t is the Python type, s the        *)
(* characters of a str (or the items of a list), n the number of an int    *)
(* or bool.  Optional[X] is a sequence of length 0 (None) or 1.  A str is  *)
(* a sequence of one-character strings; messages built by f-strings are    *)
(* TLA+ strings.                                                           *)
(*                                                                         *)
(* Four client instances, one per (secure, debug) configuration, are built *)
(* from the same key and driven by the same calls and the same transport   *)
(* responses, so that configurations can be compared call by call.         *)
(*                                                                         *)
(* The model starts from the class as it is defined.  Line 3 of the file   *)
(* imports List from dataclasses, which has no such name, so importing the *)
(* module as it stands raises ImportError before any of this can run.      *)
(* print is taken never to fail.  What the requests library does           *)
(* (Response.ok, Session.close, the exception classes) is modelled from    *)
(* its documented behaviour at the lines that call it.                     *)
(***************************************************************************)
EXTENDS Integers, Sequences, FiniteSets, TLC

VARIABLES pc, client, session, ctorError, result, sent, logged, call, scope,
          propagated, closes, vtable, vparams, verrors

vars == <<pc, client, session, ctorError, result, sent, logged, call, scope,
          propagated, closes, vtable, vparams, verrors>>

clientVars == <<pc, client, session, ctorError, result, sent, logged, call, scope,
                propagated, closes>>

validatorVars == <<vtable, vparams, verrors>>

(* ------------------------------ bounds --------------------------------- *)

\* longest zip string (and list) the callers supply
MaxZipLen == 6

\* number of close() calls in a row
MaxCloses == 2

(* --------------------------- generic helpers --------------------------- *)

None == <<>>

Some(v) == <<v>>

EmptyDict == [k \in {} |-> 0]

\* dict.get(key, default)
Get(d, key, default) == IF key \in DOMAIN d THEN d[key] ELSE default

\* n copies of c
Rep(c, n) == [i \in 1..n |-> c]

RECURSIVE Concat(_)
\* the characters of a str as one TLA+ string
Concat(s) == IF s = <<>> THEN "" ELSE Head(s) \o Concat(Tail(s))

RECURSIVE Join(_, _)
\* sep.join(strs)
Join(sep, strs) ==
    IF strs = <<>> THEN ""
    ELSE IF Len(strs) = 1 THEN strs[1]
    ELSE strs[1] \o sep \o Join(sep, Tail(strs))

\* s without the characters in cs (str.replace(c, '') for each c)
Remove(s, cs) == SelectSeq(s, LAMBDA c : c \notin cs)

(* ------------------------------ characters ----------------------------- *)

Lower == {"a", "b", "c", "d", "e", "f", "g", "h", "i", "j", "k", "l", "m",
          "n", "o", "p", "q", "r", "s", "t", "u", "v", "w", "x", "y", "z"}

Upper == {"A", "B", "C", "D", "E", "F", "G", "H", "I", "J", "K", "L", "M",
          "N", "O", "P", "Q", "R", "S", "T", "U", "V", "W", "X", "Y", "Z"}

Letters == Lower \cup Upper

Digits == {"0", "1", "2", "3", "4", "5", "6", "7", "8", "9"}

HexDigits == Digits \cup {"a", "b", "c", "d", "e", "f", "A", "B", "C", "D", "E", "F"}

Whitespace == {" ", "\n", "\t"}

\* the character class [a-zA-Z0-9_-] of line 75
KeyClass == Letters \cup Digits \cup {"-", "_"}

\* str.strip() leaves nothing: every character is whitespace
StripIsEmpty(s) == \A i \in 1..Len(s) : s[i] \in Whitespace

\* re.match(r'^[a-zA-Z0-9_-]+$', s) finds a match.  Python's $ matches at the
\* end of the string and also just before a newline that ends the string.
KeyPatternMatches(s) ==
    \E k \in 1..Len(s) :
        /\ \A i \in 1..k : s[i] \in KeyClass
        /\ \/ k = Len(s)
           \/ k = Len(s) - 1 /\ s[Len(s)] = "\n"

(* ----------------------------- exceptions ------------------------------ *)

\* ZipcodesAPIClientError(message, status_code=None, response=None)
ZipcodesAPIClientError(message, status_code, response) ==
    [type |-> "ZipcodesAPIClientError", message |-> message,
     status_code |-> status_code, response |-> response, errors |-> <<>>]

\* ValidationError(errors): a ZipcodesAPIClientError that carries the list
ValidationError(errors) ==
    [type |-> "ValidationError",
     message |-> "Validation failed: " \o Join(" ", errors),
     status_code |-> None, response |-> None, errors |-> errors]

\* an exception that is no ZipcodesAPIClientError
OtherException(type, message) ==
    [type |-> type, message |-> message, status_code |-> None,
     response |-> None, errors |-> <<>>]

\* isinstance(exc, ZipcodesAPIClientError)
IsClientError(exc) == exc.type \in {"ZipcodesAPIClientError", "ValidationError"}

(* --------------------------- API key validation ------------------------ *)

MinKeyLen == 32

MsgKeyRequired == "API key is required. Get your API key at: https://apiverve.com"

MsgKeyFormat ==
    "Invalid API key format. API key should only contain letters, numbers, hyphens, and underscores. Get your API key at: https://apiverve.com"

MsgKeyShort ==
    "Invalid API key. API key appears to be too short. Get your API key at: https://apiverve.com"

\* _validate_api_key: None when the key is accepted, else the error raised
ValidateApiKey(api_key) ==
    IF api_key = <<>> \/ StripIsEmpty(api_key)
    THEN Some(ZipcodesAPIClientError(MsgKeyRequired, None, None))
    ELSE IF ~KeyPatternMatches(api_key)
    THEN Some(ZipcodesAPIClientError(MsgKeyFormat, None, None))
    ELSE IF Len(Remove(api_key, {"-", "_"})) < MinKeyLen
    THEN Some(ZipcodesAPIClientError(MsgKeyShort, None, None))
    ELSE None

(* ------------------------------ Python values -------------------------- *)

VNone == [t |-> "none", s |-> <<>>, n |-> 0]

VStr(s) == [t |-> "str", s |-> s, n |-> 0]

VInt(n) == [t |-> "int", s |-> <<>>, n |-> n]

VBool(b) == [t |-> "bool", s |-> <<>>, n |-> IF b THEN 1 ELSE 0]

VList(s) == [t |-> "list", s |-> s, n |-> 0]

\* a == b in Python: bool is an int (True == 1), a str equals only a str
PyEq(a, b) ==
    IF a.t \in {"int", "bool"} /\ b.t \in {"int", "bool"} THEN a.n = b.n
    ELSE a.t = b.t /\ a.s = b.s

\* value in seq (list or tuple membership uses ==)
PyIn(v, seq) == \E i \in 1..Len(seq) : PyEq(v, seq[i])

\* str(value)
PyStr(v) ==
    CASE v.t = "none" -> "None"
      [] v.t = "str"  -> Concat(v.s)
      [] v.t = "int"  -> ToString(v.n)
      [] v.t = "bool" -> IF v.n = 1 THEN "True" ELSE "False"
      [] v.t = "list" -> "[" \o Join(", ", [i \in 1..Len(v.s) |-> "'" \o v.s[i] \o "'"]) \o "]"

DigitValue(c) ==
    CASE c = "0" -> 0 [] c = "1" -> 1 [] c = "2" -> 2 [] c = "3" -> 3
      [] c = "4" -> 4 [] c = "5" -> 5 [] c = "6" -> 6 [] c = "7" -> 7
      [] c = "8" -> 8 [] c = "9" -> 9

RECURSIVE Decimal(_)
\* the number a string of digits denotes
Decimal(s) ==
    IF s = <<>> THEN 0 ELSE 10 * Decimal(SubSeq(s, 1, Len(s) - 1)) + DigitValue(s[Len(s)])

\* int(value) / float(value) on the values the model draws: [ok, n], ok
\* FALSE standing for ValueError (a str that is no number) or TypeError (a
\* list).  The strings drawn hold no sign, point, exponent or whitespace, so
\* a str converts exactly when it is a non-empty run of digits, and float()
\* and int() agree.
ToNumber(v) ==
    CASE v.t \in {"int", "bool"} -> [ok |-> TRUE, n |-> v.n]
      [] v.t = "str" ->
            IF v.s # <<>> /\ \A i \in 1..Len(v.s) : v.s[i] \in Digits
            THEN [ok |-> TRUE, n |-> Decimal(v.s)]
            ELSE [ok |-> FALSE, n |-> 0]
      [] OTHER -> [ok |-> FALSE, n |-> 0]

(* ------------------------------- validator ----------------------------- *)

\* the zip rule: a required string of exactly 5 characters
VALIDATION_RULES ==
    << <<"zip", [type |-> "string", required |-> TRUE, minLength |-> 5, maxLength |-> 5]>> >>

FORMAT_PATTERNS == {"email", "url", "ip", "date", "hexColor"}

\* s up to a newline that ends it: what a pattern ending in $ has to cover
BeforeFinalNewline(s) ==
    IF s # <<>> /\ s[Len(s)] = "\n" THEN SubSeq(s, 1, Len(s) - 1) ELSE s

\* ^#?([0-9a-fA-F]{3}|[0-9a-fA-F]{6})$ covers all of s
HexColorCovers(s) ==
    LET body == IF s # <<>> /\ s[1] = "#" THEN Tail(s) ELSE s
    IN  /\ Len(body) \in {3, 6}
        /\ \A i \in 1..Len(body) : body[i] \in HexDigits

\* ^\d{4}-\d{2}-\d{2}$ covers all of s
DateCovers(s) ==
    /\ Len(s) = 10
    /\ \A i \in 1..10 : IF i \in {5, 8} THEN s[i] = "-" ELSE s[i] \in Digits

\* re.match(FORMAT_PATTERNS[format], s, re.IGNORECASE) finds a match, for
\* the two formats the rule tables of this model use
FormatMatches(format, s) ==
    CASE format = "hexColor" -> HexColorCovers(s) \/ HexColorCovers(BeforeFinalNewline(s))
      [] format = "date"     -> DateCovers(s) \/ DateCovers(BeforeFinalNewline(s))

P(name) == "Parameter [" \o name \o "] "

\* the integer/number branch, lines 126-137: [errors, stop]
NumberCheck(name, rules, value, param_type) ==
    LET num == ToNumber(value)
    IN  IF ~num.ok
        THEN [errors |-> <<P(name) \o "must be a valid " \o param_type \o ".">>, stop |-> TRUE]
        ELSE [errors |->
                (IF "min" \in DOMAIN rules /\ num.n < rules["min"]
                 THEN <<P(name) \o "must be at least " \o ToString(rules["min"]) \o ".">>
                 ELSE <<>>)
                \o
                (IF "max" \in DOMAIN rules /\ num.n > rules["max"]
                 THEN <<P(name) \o "must be at most " \o ToString(rules["max"]) \o ".">>
                 ELSE <<>>),
              stop |-> FALSE]

\* StringCheck with the minimum length compared by <= instead of <
StringCheckOffByOne(name, rules, value) ==
    IF value.t # "str"
    THEN [errors |-> <<P(name) \o "must be a string.">>, stop |-> TRUE]
    ELSE [errors |->
            (IF "minLength" \in DOMAIN rules /\ Len(value.s) <= rules["minLength"]
             THEN <<P(name) \o "must be at least " \o ToString(rules["minLength"]) \o " characters.">>
             ELSE <<>>)
            \o
            (IF "maxLength" \in DOMAIN rules /\ Len(value.s) > rules["maxLength"]
             THEN <<P(name) \o "must be at most " \o ToString(rules["maxLength"]) \o " characters.">>
             ELSE <<>>),
          stop |-> FALSE]

\* the string branch, lines 139-154: [errors, stop]
StringCheck(name, rules, value) ==
    IF value.t # "str"
    THEN [errors |-> <<P(name) \o "must be a string.">>, stop |-> TRUE]
    ELSE [errors |->
            (IF "minLength" \in DOMAIN rules /\ Len(value.s) < rules["minLength"]
             THEN <<P(name) \o "must be at least " \o ToString(rules["minLength"]) \o " characters.">>
             ELSE <<>>)
            \o
            (IF "maxLength" \in DOMAIN rules /\ Len(value.s) > rules["maxLength"]
             THEN <<P(name) \o "must be at most " \o ToString(rules["maxLength"]) \o " characters.">>
             ELSE <<>>)
            \o
            (IF "format" \in DOMAIN rules /\ rules["format"] \in FORMAT_PATTERNS
                /\ ~FormatMatches(rules["format"], value.s)
             THEN <<P(name) \o "must be a valid " \o rules["format"] \o ".">>
             ELSE <<>>),
          stop |-> FALSE]

\* BooleanCheck leaving the loop body on a type mismatch, as the string and
\* number branches do
BooleanCheckStops(name, value) ==
    IF value.t # "bool"
       /\ ~PyIn(value, <<VStr(<<"t", "r", "u", "e">>), VStr(<<"f", "a", "l", "s", "e">>),
                         VBool(TRUE), VBool(FALSE)>>)
    THEN [errors |-> <<P(name) \o "must be a boolean.">>, stop |-> TRUE]
    ELSE [errors |-> <<>>, stop |-> FALSE]

\* the boolean branch, lines 156-158
BooleanCheck(name, value) ==
    IF value.t # "bool"
       /\ ~PyIn(value, <<VStr(<<"t", "r", "u", "e">>), VStr(<<"f", "a", "l", "s", "e">>),
                         VBool(TRUE), VBool(FALSE)>>)
    THEN [errors |-> <<P(name) \o "must be a boolean.">>, stop |-> FALSE]
    ELSE [errors |-> <<>>, stop |-> FALSE]

\* the array branch, lines 160-162
ArrayCheck(name, value) ==
    IF value.t # "list"
    THEN [errors |-> <<P(name) \o "must be an array.">>, stop |-> FALSE]
    ELSE [errors |-> <<>>, stop |-> FALSE]

\* the type-specific branch of one parameter: stop is the 'continue' that
\* leaves the loop body before the enum check
TypeCheck(name, rules, value) ==
    LET param_type == Get(rules, "type", "string")
    IN  CASE param_type \in {"integer", "number"} -> NumberCheck(name, rules, value, param_type)
          [] param_type = "string"  -> StringCheck(name, rules, value)
          [] param_type = "boolean" -> BooleanCheck(name, value)
          [] param_type = "array"   -> ArrayCheck(name, value)
          [] OTHER -> [errors |-> <<>>, stop |-> FALSE]

\* the enum check, lines 165-166
EnumCheck(name, rules, value) ==
    IF "enum" \in DOMAIN rules /\ ~PyIn(value, rules["enum"])
    THEN <<P(name) \o "must be one of: "
           \o Join(", ", [i \in 1..Len(rules["enum"]) |-> PyStr(rules["enum"][i])]) \o ".">>
    ELSE <<>>

\* ValidateParam whose required check forgets the empty string
ValidateParamNoneOnly(name, rules, value) ==
    IF Get(rules, "required", FALSE) /\ value.t = "none"
    THEN <<"Required parameter [" \o name \o "] is missing.">>
    ELSE IF value.t = "none" THEN <<>>
    ELSE LET tc == TypeCheck(name, rules, value)
         IN  IF tc.stop THEN tc.errors
             ELSE tc.errors \o EnumCheck(name, rules, value)

\* one pass of the loop body, lines 112-166: the errors it appends
ValidateParam(name, rules, value) ==
    IF Get(rules, "required", FALSE) /\ (value.t = "none" \/ PyEq(value, VStr(<<>>)))
    THEN <<"Required parameter [" \o name \o "] is missing.">>
    ELSE IF value.t = "none" THEN <<>>
    ELSE LET tc == TypeCheck(name, rules, value)
         IN  IF tc.stop THEN tc.errors
             ELSE tc.errors \o EnumCheck(name, rules, value)

RECURSIVE ValidationErrors(_, _)
\* the errors list after the loop over the rule table; params is a dict
ValidationErrors(table, params) ==
    IF table = <<>> THEN <<>>
    ELSE ValidateParam(table[1][1], table[1][2], Get(params, table[1][1], VNone))
         \o ValidationErrors(Tail(table), params)

\* params or {}: params is None (<<>>) or <<dict>>
OrEmpty(params) == IF params = None THEN EmptyDict ELSE params[1]

\* _validate_params: None, or the ValidationError raised
ValidateParams(table, params) ==
    IF table = <<>> THEN None
    ELSE LET errors == ValidationErrors(table, OrEmpty(params))
         IN  IF errors # <<>> THEN Some(ValidationError(errors)) ELSE None

(* ------------------------------- transport ----------------------------- *)

BaseUrl == "https://api.apiverve.com/v1/zipcodes"

Host == "api.apiverve.com"

Timeout == 30

\* what session.get does: a transport exception (timeout, connection, other;
\* desc is str(e), pooled tells whether a connection pool for the host was
\* set up before the failure), or an HTTP response with a status code and a
\* body.  body.parse is what response.json() makes of the body: "fail"
\* (ValueError with message body.err), "dict" (the envelope body.env) or
\* "list" (a JSON array).
TransportException(kind, desc, pooled) ==
    [kind |-> kind, desc |-> desc, pooled |-> pooled, code |-> 0,
     body |-> [parse |-> "fail", env |-> EmptyDict, err |-> ""]]

HttpResponse(code, body) ==
    [kind |-> "http", desc |-> "", pooled |-> TRUE, code |-> code, body |-> body]

\* ok taken to be "below 400"
OkBelow400(code) == code < 400

\* response.ok: raise_for_status() raises for 400 <= status_code < 600 only
Ok(code) == ~(400 <= code /\ code < 600)

\* the request session.get issues: the session's default headers are merged in
GetRequest(sess, params) ==
    [method |-> "GET", url |-> BaseUrl, params |-> params,
     headers |-> sess.headers, timeout |-> Timeout]

(* -------------------------------- client ------------------------------- *)

\* the (secure, debug) configurations
Clients == BOOLEAN \X BOOLEAN

\* the fields __init__ sets, lines 49-56
NewClient(api_key, secure, debug) ==
    [api_key |-> api_key, secure |-> secure, debug |-> debug, base_url |-> BaseUrl,
     headers |-> [x_api_key |-> api_key, auth_mode |-> "pypi-package"]]

\* requests.Session() with the client's headers, lines 59-60; pools are the
\* hosts the session holds a connection pool for
NewSession(headers) == [headers |-> headers, pools |-> {}]

\* _log: the lines printed
Log(self, lines) == IF self.debug THEN lines ELSE <<>>

Returned(value) == [kind |-> "return", value |-> value, exc |-> None]

Raised(exc) == [kind |-> "raise", value |-> None, exc |-> Some(exc)]

NoResult == [kind |-> "none", value |-> None, exc |-> None]

\* repr of the params dict in the "Parameters:" line
ParamsRepr(params) ==
    LET d == OrEmpty(params)
        keys == DOMAIN d
        item(k) == "'" \o k \o "': " \o (IF d[k].t = "str" THEN "'" \o PyStr(d[k]) \o "'" ELSE PyStr(d[k]))
    IN  "{" \o (IF "zip" \in keys THEN item("zip") ELSE "")
            \o (IF keys = {"zip", "other"} THEN ", " ELSE "")
            \o (IF "other" \in keys THEN item("other") ELSE "") \o "}"

\* bool(params) of line 187
Truthy(params) == params # None /\ DOMAIN params[1] # {}

\* lines 203-207: response.json() raised ValueError
JsonError(self, code, err) ==
    [result |-> Raised(ZipcodesAPIClientError(
                    "Invalid JSON response from API: " \o err, Some(code), None)),
     lines |-> <<>>]

\* line 210 on a parsed body that is no dict: .get does not exist
NotADict(self, parse) ==
    [result |-> Raised(OtherException("AttributeError",
                    "'" \o parse \o "' object has no attribute 'get'")),
     lines |-> <<>>]

\* ApiError that, with debug on, logs the error and hands the envelope back
ApiErrorLoggedOnly(self, code, env) ==
    LET error_message == Get(env, "error", "Unknown API error")
    IN  IF self.debug
        THEN [result |-> Returned(Some(env)),
              lines |-> <<"API returned error: " \o error_message>>]
        ELSE [result |-> Raised(ZipcodesAPIClientError(error_message, Some(code), Some(env))),
              lines |-> <<>>]

\* lines 211-217: the envelope says status "error"
ApiError(self, code, env) ==
    LET error_message == Get(env, "error", "Unknown API error")
    IN  [result |-> Raised(ZipcodesAPIClientError(error_message, Some(code), Some(env))),
         lines |-> Log(self, <<"API returned error: " \o error_message>>)]

\* lines 221-227: the HTTP status is a failure
HttpError(self, code, env) ==
    LET error_message == Get(env, "error", "HTTP " \o ToString(code) \o " error")
    IN  [result |-> Raised(ZipcodesAPIClientError(error_message, Some(code), Some(env))),
         lines |-> Log(self, <<"HTTP error: " \o error_message>>)]

\* Success handing back the data field only
SuccessDataOnly(self, env) ==
    [result |-> Returned(Some(Get(env, "data", EmptyDict))),
     lines |-> Log(self, <<"Request successful">>)]

\* lines 229-230: the parsed envelope is returned
Success(self, env) ==
    [result |-> Returned(Some(env)), lines |-> Log(self, <<"Request successful">>)]

\* Classify with the HTTP status looked at before the envelope's status
ClassifyHttpFirst(self, code, env) ==
    IF ~Ok(code) THEN HttpError(self, code, env)
    ELSE IF "status" \in DOMAIN env /\ env["status"] = "error" THEN ApiError(self, code, env)
    ELSE Success(self, env)

\* lines 209-230: the parsed envelope is classified
Classify(self, code, env) ==
    IF "status" \in DOMAIN env /\ env["status"] = "error" THEN ApiError(self, code, env)
    ELSE IF ~Ok(code) THEN HttpError(self, code, env)
    ELSE Success(self, env)

\* lines 198-230: the response has arrived
HandleResponse(self, resp) ==
    LET out == IF resp.body.parse = "fail" THEN JsonError(self, resp.code, resp.body.err)
               ELSE IF resp.body.parse # "dict" THEN NotADict(self, resp.body.parse)
               ELSE Classify(self, resp.code, resp.body.env)
    IN  [result |-> out.result,
         lines |-> Log(self, <<"Response status code: " \o ToString(resp.code)>>) \o out.lines]

\* lines 190-240: the request is sent and its outcome handled
SendAndHandle(self, resp) ==
    CASE resp.kind = "timeout" ->
            [result |-> Raised(ZipcodesAPIClientError("Request timeout: " \o resp.desc, None, None)),
             lines |-> Log(self, <<"Request timeout: " \o resp.desc>>)]
      [] resp.kind = "connection" ->
            [result |-> Raised(ZipcodesAPIClientError("Connection error: " \o resp.desc, None, None)),
             lines |-> Log(self, <<"Connection error: " \o resp.desc>>)]
      [] resp.kind = "other" ->
            [result |-> Raised(ZipcodesAPIClientError("Request failed: " \o resp.desc, None, None)),
             lines |-> Log(self, <<"Request exception: " \o resp.desc>>)]
      [] resp.kind = "http" -> HandleResponse(self, resp)

\* execute(params) on a client whose session is sess: the call's result, the
\* requests issued, the lines printed and the session afterwards.  resp is
\* what the transport does with the request: <<r>>, or None where the call
\* never gets to the transport.
Execute(self, sess, params, resp) ==
    LET invalid == ValidateParams(VALIDATION_RULES, params)
    IN  IF invalid # None
        THEN [result |-> Raised(invalid[1]), sent |-> <<>>, lines |-> <<>>, session |-> sess]
        ELSE LET out == SendAndHandle(self, resp[1])
             IN  [result  |-> out.result,
                  sent    |-> <<GetRequest(sess, params)>>,
                  lines   |-> Log(self, <<"Making GET request to " \o self.base_url>>)
                              \o (IF Truthy(params)
                                  THEN Log(self, <<"Parameters: " \o ParamsRepr(params)>>)
                                  ELSE <<>>)
                              \o Log(self, <<"Sending GET request with query parameters">>)
                              \o out.lines,
                  session |-> IF resp[1].pooled
                              THEN [sess EXCEPT !.pools = @ \cup {Host}]
                              ELSE sess]

\* close() that logs and leaves the session as it is
CloseLogsOnly(self, sess) ==
    [result |-> Returned(None), sent |-> <<>>, lines |-> Log(self, <<"Closing session">>),
     session |-> sess]

\* close(): session.close() clears the session's connection pools and
\* returns None
Close(self, sess) ==
    [result |-> Returned(None), sent |-> <<>>, lines |-> Log(self, <<"Closing session">>),
     session |-> [sess EXCEPT !.pools = {}]]

(* -------------------------------- inputs ------------------------------- *)

\* a key: n letters, alone, or with one character that is no letter, digit,
\* hyphen or underscore put in at the front, in the middle or at the end, or
\* with a hyphen at the end, or with an underscore at the front
KeyLens == {0, 1, MinKeyLen - 1, MinKeyLen}

KeyIntruders == {"!", " ", "\n"}

Keys ==
    {Rep("a", n) : n \in KeyLens}
    \cup {Rep("a", i) \o <<c>> \o Rep("a", n - i) :
            <<n, i, c>> \in {t \in KeyLens \X (0..MinKeyLen) \X KeyIntruders :
                             t[2] \in {0, t[1] \div 2, t[1]}}}
    \cup {Rep("a", n) \o <<"-">> : n \in KeyLens}
    \cup {<<"_">> \o Rep("a", n) : n \in KeyLens}

ZipChars == {"6", "x"}

\* runs of "6", the last character replaced by any of ZipChars
ZipStrings ==
    {<<>>} \cup {Rep("6", n - 1) \o <<c>> : n \in 1..MaxZipLen, c \in ZipChars}

ZipValues ==
    {VNone, VInt(64082), VBool(TRUE)}
    \cup {VStr(s) : s \in ZipStrings}
    \cup {VList(Rep("6", n)) : n \in 0..MaxZipLen}

\* what callers pass to execute
ParamsSet ==
    {None, Some(EmptyDict), Some("other" :> VStr(<<"x">>))}
    \cup {Some("zip" :> v) : v \in ZipValues}

Codes == {199, 200, 299, 300, 399, 400, 599, 600}

Data == [zip |-> "64082", city |-> "Lees Summit"]

Envelopes ==
    {("data" :> Data) @@ st @@ er :
            st \in {EmptyDict, "status" :> "ok", "status" :> "error"},
            er \in {EmptyDict, "error" :> "Zip code not found"}}

Bodies ==
    {[parse |-> "fail", env |-> EmptyDict, err |-> "Expecting value: line 1 column 1 (char 0)"],
     [parse |-> "list", env |-> EmptyDict, err |-> ""]}
    \cup {[parse |-> "dict", env |-> e, err |-> ""] : e \in Envelopes}

Responses ==
    {TransportException("timeout", "Read timed out. (read timeout=30)", TRUE),
     TransportException("connection", "Connection refused", TRUE),
     TransportException("other", "Exceeded 30 redirects.", TRUE),
     TransportException("other", "Invalid URL", FALSE)}
    \cup {HttpResponse(code, body) : code \in Codes, body \in Bodies}

\* what the transport may do with the request of execute(params): nothing
\* where validation stops the call
TransportFor(params) ==
    IF ValidateParams(VALIDATION_RULES, params) = None
    THEN {Some(r) : r \in Responses}
    ELSE {None}

(* --------------------------- the client's life ------------------------- *)

NoCall == [op |-> "none", api_key |-> <<>>, params |-> None, resp |-> None]

Init ==
    /\ pc = "new"
    /\ client = [c \in Clients |-> None]
    /\ session = [c \in Clients |-> None]
    /\ ctorError = [c \in Clients |-> None]
    /\ result = [c \in Clients |-> NoResult]
    /\ sent = [c \in Clients |-> <<>>]
    /\ logged = [c \in Clients |-> <<>>]
    /\ closes = 0
    /\ call = NoCall
    /\ scope = [c \in Clients |-> "none"]
    /\ propagated = [c \in Clients |-> None]
    /\ vtable = <<>>
    /\ vparams = None
    /\ verrors = <<>>

\* ZipcodesAPIClient(api_key, secure, debug), for each configuration
Construct(api_key) ==
    /\ pc = "new"
    /\ LET invalid == ValidateApiKey(api_key)
       IN  /\ pc' = IF invalid = None THEN "ready" ELSE "failed"
           /\ ctorError' = [c \in Clients |-> invalid]
           /\ client' = [c \in Clients |->
                           IF invalid = None THEN Some(NewClient(api_key, c[1], c[2])) ELSE None]
           /\ session' = [c \in Clients |->
                           IF invalid = None
                           THEN Some(NewSession(NewClient(api_key, c[1], c[2]).headers))
                           ELSE None]
    /\ call' = [NoCall EXCEPT !.op = "__init__", !.api_key = api_key]
    /\ UNCHANGED <<result, sent, logged, scope, propagated, closes>>
    /\ UNCHANGED validatorVars

\* a call of a method: what it leaves in each client, and where the
\* exception it raises goes (to the caller, or into the with-block's exit)
Apply(op, params, resp, outcome(_)) ==
    /\ pc = "ready"
    /\ \A c \in Clients : scope[c] # "unwinding"
    /\ \E out \in {[c \in Clients |-> outcome(c)]} :
        /\ result' = [c \in Clients |-> out[c].result]
        /\ sent' = [c \in Clients |-> out[c].sent]
        /\ logged' = [c \in Clients |-> out[c].lines]
        /\ session' = [c \in Clients |-> Some(out[c].session)]
        /\ scope' = [c \in Clients |->
                        IF scope[c] = "in" /\ out[c].result.kind = "raise"
                        THEN "unwinding" ELSE scope[c]]
        /\ propagated' = [c \in Clients |->
                            IF scope[c] = "in" THEN None ELSE out[c].result.exc]
    /\ call' = [op |-> op, api_key |-> <<>>, params |-> params, resp |-> resp]
    /\ UNCHANGED <<pc, client, ctorError>>
    /\ UNCHANGED validatorVars

\* client.execute(params)
DoExecute(params, resp) ==
    /\ Apply("execute", params, resp,
             LAMBDA c : Execute(client[c][1], session[c][1], params, resp))
    /\ closes' = 0

\* client.close()
DoClose ==
    /\ closes < MaxCloses
    /\ Apply("close", None, None,
             LAMBDA c : Close(client[c][1], session[c][1]))
    /\ closes' = closes + 1

\* with client: ...   (__enter__ returns self)
WithEnter ==
    /\ pc = "ready"
    /\ \A c \in Clients : scope[c] = "none"
    /\ scope' = [c \in Clients |-> "in"]
    /\ call' = [NoCall EXCEPT !.op = "__enter__"]
    /\ result' = [c \in Clients |-> NoResult]
    /\ sent' = [c \in Clients |-> <<>>]
    /\ logged' = [c \in Clients |-> <<>>]
    /\ propagated' = [c \in Clients |-> None]
    /\ closes' = 0
    /\ UNCHANGED <<pc, client, session, ctorError>>
    /\ UNCHANGED validatorVars

\* what __exit__ returns: None, which is falsy
ExitReturns == FALSE

\* the with-block is left, normally or by the exception in flight:
\* __exit__ calls close(), and the exception goes on to the caller unless
\* __exit__ returned a true value
WithExit ==
    /\ pc = "ready"
    /\ \A c \in Clients : scope[c] \in {"in", "unwinding"}
    /\ scope' = [c \in Clients |-> "none"]
    /\ call' = [NoCall EXCEPT !.op = "__exit__"]
    /\ session' = [c \in Clients |-> Some(Close(client[c][1], session[c][1]).session)]
    /\ logged' = [c \in Clients |-> Close(client[c][1], session[c][1]).lines]
    /\ propagated' = [c \in Clients |->
                        IF scope[c] = "unwinding" /\ ~ExitReturns THEN result[c].exc ELSE None]
    /\ closes' = 1
    /\ UNCHANGED <<pc, client, ctorError, result, sent>>
    /\ UNCHANGED validatorVars

Next ==
    \/ \E api_key \in Keys : Construct(api_key)
    \/ \E params \in ParamsSet : \E resp \in TransportFor(params) : DoExecute(params, resp)
    \/ DoClose
    \/ WithEnter
    \/ WithExit

Spec == Init /\ [][Next]_vars

(* ------------------- the validator over other rule tables -------------- *)

\* rules for one parameter "p": any type, required or not, with or without
\* an enum, with or without bounds, lengths or a format
RuleSets ==
    {ty @@ rq @@ en @@ ex :
        ty \in {EmptyDict} \cup {"type" :> x : x \in {"string", "integer", "number", "boolean", "array"}},
        rq \in {EmptyDict, "required" :> TRUE},
        en \in {EmptyDict, "enum" :> <<VStr(<<"6">>), VInt(1)>>},
        ex \in {EmptyDict, ("min" :> 2) @@ ("max" :> 5),
                ("minLength" :> 2) @@ ("maxLength" :> 3), "format" :> "hexColor"}}

\* the tables: one parameter, or the zip rule followed by one parameter
RuleTables ==
    {<< <<"p", r>> >> : r \in RuleSets}
    \cup {VALIDATION_RULES \o << <<"p", r>> >> : r \in {rr \in RuleSets : DOMAIN rr = {"type", "enum"}}}

PValues ==
    {VStr(<<>>), VStr(<<"6">>), VStr(<<"x">>), VStr(<<"6", "6", "6">>), VStr(<<"6", "x", "6", "x">>),
     VStr(<<"t", "r", "u", "e">>), VInt(1), VInt(7), VBool(TRUE), VBool(FALSE),
     VList(<<>>), VList(<<"6">>)}

VParamsSet ==
    {None, Some(EmptyDict)} \cup {Some("p" :> v) : v \in PValues \cup {VNone}}

\* _validate_params(params) of a client class whose VALIDATION_RULES is table
Validate(table, params) ==
    /\ vtable' = table
    /\ vparams' = params
    /\ verrors' = LET invalid == ValidateParams(table, params)
                  IN  IF invalid = None THEN <<>> ELSE invalid[1].errors
    /\ UNCHANGED clientVars

NextValidator == \E table \in RuleTables, params \in VParamsSet : Validate(table, params)

SpecValidator == Init /\ [][NextValidator]_vars

TypeOK == pc \in {"new", "ready", "failed"}

(* ================================ claims =============================== *)

IsExecute == call.op = "execute"

\* the zip value execute was called with (None when absent)
ZipArg == Get(OrEmpty(call.params), "zip", VNone)

\* the last call raised ValidationError in client c
RaisedValidation(c) ==
    /\ result[c].kind = "raise"
    /\ result[c].exc[1].type = "ValidationError"

\* the last call raised ValidationError in client c, msg in its errors list
HasError(c, msg) ==
    /\ RaisedValidation(c)
    /\ \E i \in 1..Len(result[c].exc[1].errors) : result[c].exc[1].errors[i] = msg

MsgMissing == "Required parameter [zip] is missing."

MsgTooShort == "Parameter [zip] must be at least 5 characters."

MsgTooLong == "Parameter [zip] must be at most 5 characters."

MsgNotString == "Parameter [zip] must be a string."

\* the last call was an execute whose request got an HTTP response with a
\* JSON object as body
GotEnvelope ==
    /\ IsExecute
    /\ call.resp # None
    /\ call.resp[1].kind = "http"
    /\ call.resp[1].body.parse = "dict"

RespCode == call.resp[1].code

RespEnv == call.resp[1].body.env

StatusIsError == "status" \in DOMAIN RespEnv /\ RespEnv["status"] = "error"

\* client c's last call raised exactly ZipcodesAPIClientError(msg, code, env)
RaisedClientError(c, msg, code, env) ==
    /\ result[c].kind = "raise"
    /\ result[c].exc[1].type = "ZipcodesAPIClientError"
    /\ result[c].exc[1].message = msg
    /\ result[c].exc[1].status_code = code
    /\ result[c].exc[1].response = env

\* C1: execute with zip absent, None or '' (params None and {} included)
\* raises ValidationError listing "Required parameter [zip] is missing." and
\* issues no HTTP request.
C1_MissingZipStopsBeforeNetwork ==
    IsExecute /\ (ZipArg.t = "none" \/ ZipArg = VStr(<<>>))
        => \A c \in Clients : HasError(c, MsgMissing) /\ sent[c] = <<>>

C1_Witness ==
    /\ IsExecute
    /\ call.params = Some("zip" :> VStr(<<>>))
    /\ \A c \in Clients : HasError(c, MsgMissing) /\ sent[c] = <<>>

\* C2 as stated: every zip value that has a length other than 5 is rejected
\* with a length-violation message, and every value of length 5 passes
\* validation and reaches the HTTP call.
C2_Original ==
    IsExecute /\ ZipArg.t \in {"str", "list"}
        => \A c \in Clients :
              IF Len(ZipArg.s) # 5
              THEN HasError(c, MsgTooShort) \/ HasError(c, MsgTooLong)
              ELSE ~RaisedValidation(c) /\ sent[c] # <<>>

\* C2, amended: a str zip of length 1..4 is rejected with the "at least 5
\* characters" message and one longer than 5 with the "at most 5 characters"
\* message; a str of exactly 5 characters, whatever they are, passes
\* validation and reaches the HTTP call; the empty str is rejected as
\* missing and a value that is no str as "must be a string", both without a
\* length message.
C2_LengthRule ==
    IsExecute /\ ZipArg.t \in {"str", "list"}
        => \A c \in Clients :
              CASE ZipArg.t = "list" ->
                      /\ HasError(c, MsgNotString)
                      /\ ~HasError(c, MsgTooShort) /\ ~HasError(c, MsgTooLong)
                [] ZipArg.t = "str" /\ Len(ZipArg.s) = 0 ->
                      /\ HasError(c, MsgMissing)
                      /\ ~HasError(c, MsgTooShort) /\ ~HasError(c, MsgTooLong)
                [] ZipArg.t = "str" /\ Len(ZipArg.s) \in 1..4 -> HasError(c, MsgTooShort)
                [] ZipArg.t = "str" /\ Len(ZipArg.s) = 5 -> ~RaisedValidation(c) /\ sent[c] # <<>>
                [] ZipArg.t = "str" /\ Len(ZipArg.s) > 5 -> HasError(c, MsgTooLong)

C2_Witness ==
    /\ IsExecute
    /\ ZipArg.t = "str" /\ Len(ZipArg.s) = 6
    /\ \A c \in Clients : HasError(c, MsgTooLong) /\ sent[c] = <<>>

\* the keys C3 says are rejected
KeyRejectable(k) ==
    \/ k = <<>>
    \/ \A i \in 1..Len(k) : k[i] \in Whitespace
    \/ \E i \in 1..Len(k) : k[i] \notin KeyClass
    \/ Len(SelectSeq(k, LAMBDA ch : ch \notin {"-", "_"})) < 32

\* C3: construction fails with ZipcodesAPIClientError, and creates no
\* session, exactly when the key is empty or whitespace only, holds a
\* character outside letters, digits, hyphen and underscore at any position,
\* or has fewer than 32 characters besides hyphens and underscores.
C3_Original ==
    call.op = "__init__"
        => \A c \in Clients :
              IF KeyRejectable(call.api_key)
              THEN /\ pc = "failed"
                   /\ ctorError[c] # None
                   /\ ctorError[c][1].type = "ZipcodesAPIClientError"
                   /\ session[c] = None
              ELSE pc = "ready" /\ ctorError[c] = None /\ session[c] # None

\* the message C4 and its amendment expect
HttpErrorMessage ==
    IF "error" \in DOMAIN RespEnv THEN RespEnv["error"]
    ELSE "HTTP " \o ToString(RespCode) \o " error"

\* C4 as stated: an envelope whose status is not "error", with any HTTP code
\* outside 200..299, makes execute raise ZipcodesAPIClientError (the
\* envelope's error field or "HTTP <code> error", the code, the envelope).
C4_Original ==
    GotEnvelope /\ ~StatusIsError /\ RespCode \notin 200..299
        => \A c \in Clients :
              RaisedClientError(c, HttpErrorMessage, Some(RespCode), Some(RespEnv))

\* C4, amended: an envelope whose status is not "error", with an HTTP code
\* in 400..599, makes execute raise ZipcodesAPIClientError (the envelope's
\* error field or "HTTP <code> error", the code, the envelope) and never
\* return; with any other code (1xx and 3xx as well as 2xx) execute returns
\* the envelope.
C4_HttpFailure ==
    GotEnvelope /\ ~StatusIsError
        => \A c \in Clients :
              IF RespCode \in 400..599
              THEN RaisedClientError(c, HttpErrorMessage, Some(RespCode), Some(RespEnv))
              ELSE result[c].kind = "return" /\ result[c].value = Some(RespEnv)

C4_Witness ==
    /\ GotEnvelope /\ ~StatusIsError
    /\ RespCode = 599 /\ "error" \notin DOMAIN RespEnv
    /\ \A c \in Clients :
          RaisedClientError(c, "HTTP 599 error", Some(599), Some(RespEnv))

\* C5 as stated: an envelope whose status is "error" makes execute raise
\* ZipcodesAPIClientError whose message is the envelope's error field,
\* whatever the HTTP code.
C5_Original ==
    GotEnvelope /\ StatusIsError
        => \A c \in Clients :
              /\ "error" \in DOMAIN RespEnv
              /\ RaisedClientError(c, RespEnv["error"], Some(RespCode), Some(RespEnv))

\* C5, amended: an envelope whose status is "error" makes execute raise
\* ZipcodesAPIClientError with the HTTP code and the envelope, whatever the
\* HTTP code (200 included, and before the HTTP code is looked at); its
\* message is the envelope's error field where there is one, and
\* "Unknown API error" where there is none.
C5_ApiError ==
    GotEnvelope /\ StatusIsError
        => \A c \in Clients :
              RaisedClientError(c,
                  IF "error" \in DOMAIN RespEnv THEN RespEnv["error"] ELSE "Unknown API error",
                  Some(RespCode), Some(RespEnv))

C5_Witness ==
    /\ GotEnvelope /\ StatusIsError
    /\ RespCode = 200
    /\ \A c \in Clients :
          RaisedClientError(c, "Zip code not found", Some(200), Some(RespEnv))

\* C6: with valid params, a 2xx response whose envelope's status is not
\* "error" makes execute return the whole envelope as received and raise
\* nothing.
C6_SuccessReturnsEnvelope ==
    GotEnvelope /\ ~StatusIsError /\ RespCode \in 200..299
        => \A c \in Clients :
              /\ result[c] = [kind |-> "return", value |-> Some(RespEnv), exc |-> None]
              /\ scope[c] # "unwinding"

C6_Witness ==
    /\ GotEnvelope
    /\ RespCode = 200
    /\ RespEnv = ("status" :> "ok") @@ ("data" :> [zip |-> "64082", city |-> "Lees Summit"])
    /\ \A c \in Clients : result[c].kind = "return" /\ result[c].value = Some(RespEnv)

\* C7: whatever the HTTP attempt does (timeout, connection failure, other
\* transport exception, unparsable body, JSON of any shape with any code),
\* execute returns the parsed body or raises ZipcodesAPIClientError; a
\* timeout's message wraps the timeout description and a parse failure
\* carries the HTTP code.
C7_Original ==
    IsExecute /\ call.resp # None
        => \A c \in Clients :
              /\ \/ result[c].kind = "return"
                 \/ result[c].kind = "raise" /\ IsClientError(result[c].exc[1])
              /\ call.resp[1].kind = "timeout"
                    => RaisedClientError(c, "Request timeout: " \o call.resp[1].desc, None, None)
              /\ call.resp[1].kind = "http" /\ call.resp[1].body.parse = "fail"
                    => /\ result[c].kind = "raise"
                       /\ result[c].exc[1].status_code = Some(RespCode)

\* C8: close never raises and leaves the session released, also when the
\* session was closed before; leaving a with-block closes the session the
\* same way and passes the exception raised inside it on to the caller.
C8_CloseIdempotentScopedRelease ==
    /\ call.op = "close"
          => \A c \in Clients :
                /\ result[c] = [kind |-> "return", value |-> None, exc |-> None]
                /\ session[c] = Some([headers |-> client[c][1].headers, pools |-> {}])
    /\ call.op = "__exit__"
          => \A c \in Clients :
                /\ session[c] = Some([headers |-> client[c][1].headers, pools |-> {}])
                /\ propagated[c] = result[c].exc

C8_Witness ==
    /\ call.op = "close"
    /\ closes = 2
    /\ \A c \in Clients : result[c].kind = "return" /\ session[c][1].pools = {}

\* C9: clients that differ in debug or in secure only see, for the same
\* calls and the same transport responses, the same requests and the same
\* outcome of every call.
C9_FlagsDoNotInterfere ==
    \A c1, c2 \in Clients :
        /\ result[c1] = result[c2]
        /\ sent[c1] = sent[c2]
        /\ propagated[c1] = propagated[c2]
        /\ ctorError[c1] = ctorError[c2]
        /\ session[c1] = session[c2]

C9_Witness ==
    /\ GotEnvelope /\ StatusIsError
    /\ \A c \in Clients : result[c].kind = "raise" /\ sent[c] # <<>>
    /\ \A c \in Clients : (logged[c] # <<>>) <=> c[2]

\* the entries of the rule table under validation that declare an enum, with
\* a supplied value that is present and no member of it
EnumViolations ==
    {i \in 1..Len(vtable) :
        LET rules == vtable[i][2]
            value == Get(OrEmpty(vparams), vtable[i][1], VNone)
        IN  /\ "enum" \in DOMAIN rules
            /\ value.t # "none"
            /\ ~("required" \in DOMAIN rules /\ value = VStr(<<>>))
            /\ \A k \in 1..Len(rules["enum"]) : ~PyEq(value, rules["enum"][k])}

\* the type check of entry i fails in a branch that leaves the loop body
TypeCheckStops(i) ==
    LET rules == vtable[i][2]
        value == Get(OrEmpty(vparams), vtable[i][1], VNone)
        type  == IF "type" \in DOMAIN rules THEN rules["type"] ELSE "string"
    IN  \/ type = "string" /\ value.t # "str"
        \/ type \in {"integer", "number"} /\ ~ToNumber(value).ok

\* the type check of entry i fails
TypeCheckFails(i) ==
    LET rules == vtable[i][2]
        value == Get(OrEmpty(vparams), vtable[i][1], VNone)
        type  == IF "type" \in DOMAIN rules THEN rules["type"] ELSE "string"
    IN  \/ TypeCheckStops(i)
        \/ type = "boolean" /\ value.t # "bool" /\ value \notin {VInt(0), VInt(1), VStr(<<"t", "r", "u", "e">>)}
        \/ type = "array" /\ value.t # "list"

\* the enum message of the one enum the rule tables use
MsgEnum == "Parameter [p] must be one of: 6, 1."

InErrors(msg) == \E k \in 1..Len(verrors) : verrors[k] = msg

\* C10 as stated: a present value outside a declared enum always gets the
\* enum-violation message, whether its type check passed or failed.
C10_Original ==
    \A i \in EnumViolations : InErrors(MsgEnum)

\* C10, amended: a present value outside a declared enum gets the
\* enum-violation message whether its type check passed or failed where the
\* type is boolean or array; where the type is string, integer or number it
\* gets the message only when the type check passed, a failed type check
\* ending the checks of that parameter.
C10_EnumAfterType ==
    \A i \in EnumViolations : InErrors(MsgEnum) <=> ~TypeCheckStops(i)

C10_Witness ==
    /\ vtable = << <<"p", ("type" :> "boolean") @@ ("enum" :> <<VStr(<<"6">>), VInt(1)>>)>> >>
    /\ vparams = Some("p" :> VInt(7))
    /\ TypeCheckFails(1)
    /\ verrors = <<"Parameter [p] must be a boolean.", MsgEnum>>

====
